---- MODULE Spec2Model ----
(***************************************************************************)
(* Model of bottlerocketlabs/fuzzy: the match/rank engine (Content.Filter, *)
(* SortableInputItems.Less, removeEmpty) and the selection session         *)
(* (FindWithScreen and the command-line Run that prints its result).       *)
(*                                                                         *)
(* Strings are sequences of one-character strings, so len(s) is Len(s).    *)
(* A float64 score is an exact fraction [num, den]; den = 0 is NaN, the    *)
(* value Go produces for 0.0 / 0.0.                                        *)
(***************************************************************************)
EXTENDS Integers, Sequences, FiniteSets, TLC

VARIABLES
    stdin,            \* the characters Run reads from standard input
    args,             \* the query given on the command line of Run
    caseSensitive,    \* CaseSensitive of the scorer Run builds
    verbose,          \* Content.verbose         bool
    input,            \* what Each of the caller's enumerable hands over, in order
    data,             \* Content.data            []InputItem
    live,             \* Content.live            []InputItem
    scorer,           \* Content.scorer          algo.TextScorer
    hideLessThan,     \* Content.hideLessThan    float64
    returnOneResult,  \* Content.returnOneResult bool
    pc,               \* where the caller of Find is: "setup", "Editing", ...
    query,            \* text of the input field
    row,              \* selected row of the table (0-based)
    output,           \* the string Find returns
    stdout            \* lines Run has written to standard output

\* what only the command-line Run sets, before the session starts
runVars == <<stdin, args, caseSensitive, verbose>>

vars == <<runVars, input, data, live, scorer, hideLessThan, returnOneResult,
          pc, query, row, output, stdout>>

----------------------------------------------------------------------------
(* Bounds and the input alphabet                                           *)

MaxQueryLen == 3

SP == " "
TAB == "\t"

\* characters a query is made of
QueryChars == {"a", "b", SP, TAB}

\* the candidate texts of the inputs below
TextA == <<"a">>
TextABB == <<"a", "b", "b">>
KeyK == <<"k">>
Texts == {TextA, TextABB}

\* the query terms: the letter terms, and the tab a query can hold
LetterTerms == {<<"a">>, <<"b">>}
Terms == LetterTerms \cup {<<TAB>>}

\* values a tabulated scorer returns
ScoreValues == {0, 2}

----------------------------------------------------------------------------
(* float64 scores                                                          *)

NaN == [num |-> 0, den |-> 0]

Float(n) == [num |-> n, den |-> 1]

IsNaN(x) == x.den = 0

RECURSIVE GCD(_, _)
GCD(a, b) == IF b = 0 THEN a ELSE GCD(b, a % b)

\* sum / float64(n) for an integral sum; 0/0 is NaN
Quot(sum, n) ==
    IF n = 0 THEN NaN
    ELSE LET g == GCD(IF sum < 0 THEN -sum ELSE sum, n)
         IN  [num |-> sum \div g, den |-> n \div g]

\* the float64 comparisons; every comparison with NaN is false
FLess(x, y) == ~IsNaN(x) /\ ~IsNaN(y) /\ x.num * y.den < y.num * x.den
FEq(x, y) == ~IsNaN(x) /\ ~IsNaN(y) /\ x.num * y.den = y.num * x.den
FGeq(x, y) == ~IsNaN(x) /\ ~IsNaN(y) /\ x.num * y.den >= y.num * x.den
FGreater(x, y) == FLess(y, x)

Abs(n) == IF n < 0 THEN -n ELSE n

----------------------------------------------------------------------------
(* Candidate model                                                         *)

DefaultScore == 1

\* Str: String() and Value() are the string itself
NewStr(content) == [Str |-> content, Val |-> content]

\* StrMapEntry: the map key is Value(), the map value is String()
StrMapEntry(v, s) == [Val |-> v, Str |-> s]

NewInputItem(item) == [item |-> item, Score |-> Float(DefaultScore)]

\* StrList.Each: the elements in slice order
StrListEach(l) == [i \in 1..Len(l) |-> NewStr(l[i])]

\* what Each hands to SupplyNewContent (and the lines ReadNewContent scans):
\* string lists, and the StrMap {"k": "a", "a": "abb"} in either iteration order
Sources ==
    { StrListEach(<<>>),
      StrListEach(<<TextA, TextABB>>),
      StrListEach(<<TextABB, TextA, TextABB>>),
      <<StrMapEntry(KeyK, TextA), StrMapEntry(TextA, TextABB)>>,
      <<StrMapEntry(TextA, TextABB), StrMapEntry(KeyK, TextA)>> }

\* SupplyNewContent / ReadNewContent: one InputItem per element, in order
SupplyData(src) == [i \in 1..Len(src) |-> NewInputItem(src[i])]

----------------------------------------------------------------------------
(* Scorer capability                                                       *)

NopScore == 1

\* NopScorer.Compare returns 1.0 for every pair
NopScorer == [p \in Texts \X Terms |-> NopScore]

\* any other TextScorer: a pure function of (text, term), here any table of
\* ScoreValues over the letter terms; no candidate text holds a tab, and the
\* tab term scores 0 against all of them
Scorers ==
    { [p \in Texts \X Terms |->
          IF p[2] \in LetterTerms THEN t[p] ELSE 0] :
      t \in [Texts \X LetterTerms -> ScoreValues] }

Compare(sc, a, b) == sc[<<a, b>>]

\* unicode.IsUpper(r) && unicode.IsLetter(r)
UpperChars == {"A"}

HasUpper(str) == \E i \in 1..Len(str) : str[i] \in UpperChars

\* characters and terms of the queries given to Run and typed in its sessions
RunChars == {"a", "A", SP}
RunTerms == {<<"a">>, <<"A">>}

\* strings.ToLower on the model's characters
ToLower(s) == [i \in 1..Len(s) |-> IF s[i] = "A" THEN "a" ELSE s[i]]

\* SmithWatermanGotoh.Compare(a, b) for a term b of one character: the best
\* local alignment is one matching character (Match 1) when b occurs in a,
\* and nothing otherwise; both strings are lower-cased first unless the
\* scorer is case sensitive
SmithWatermanCompare(cs, a, b) ==
    LET x == IF cs THEN a ELSE ToLower(a)
        y == IF cs THEN b ELSE ToLower(b)
    IN  IF \E i \in 1..Len(x) : x[i] = y[1] THEN 1 ELSE 0

\* NewSmithWaterman(caseSensitive), as the table of its Compare
NewSmithWaterman(cs) ==
    [p \in Texts \X RunTerms |-> SmithWatermanCompare(cs, p[1], p[2])]

----------------------------------------------------------------------------
(* Match/rank engine                                                       *)

\* index of the first occurrence of the character sep in s, 0 if there is none
RECURSIVE IndexFrom(_, _, _)
IndexFrom(s, sep, i) ==
    IF i > Len(s) THEN 0
    ELSE IF s[i] = sep THEN i
    ELSE IndexFrom(s, sep, i + 1)

\* strings.Split(s, sep) for a one-character separator: the pieces between
\* the occurrences of sep, empty pieces included
RECURSIVE Split(_, _)
Split(s, sep) ==
    LET i == IndexFrom(s, sep, 1)
    IN  IF i = 0 THEN <<s>>
        ELSE <<SubSeq(s, 1, i - 1)>> \o Split(SubSeq(s, i + 1, Len(s)), sep)

removeEmpty(in) == SelectSeq(in, LAMBDA str : str # <<>>)

\* the loop "score = score + c.scorer.Compare(item.item.String(), part)"
RECURSIVE SumScores(_, _, _)
SumScores(sc, text, parts) ==
    IF parts = <<>> THEN 0
    ELSE Compare(sc, text, Head(parts)) + SumScores(sc, text, Tail(parts))

\* |len(query) - len(item.String())|
LenDiff(q, it) == Abs(Len(q) - Len(it.item.Str))

\* SortableInputItems.Less(x, y), indices 1-based
Less(items, q, x, y) ==
    IF FLess(items[x].Score, items[y].Score) THEN TRUE
    ELSE IF LenDiff(q, items[x]) > LenDiff(q, items[y]) THEN TRUE
    ELSE FALSE

\* sort.Reverse: Less(i, j) of the wrapper is Less(j, i) of the wrapped
ReverseLess(items, q, i, j) == Less(items, q, j, i)

\* Swap as two assignments in a row: the element at x is lost
SwapOverwrite(items, x, y) == [items EXCEPT ![x] = items[y]]

Swap(items, x, y) == [items EXCEPT ![x] = items[y], ![y] = items[x]]

\* sort.Sort on fewer than 7 elements is insertionSort of package sort:
\*   for i := a + 1; i < b; i++ {
\*       for j := i; j > a && data.Less(j, j-1); j-- { data.Swap(j, j-1) } }
RECURSIVE InsertDown(_, _, _)
InsertDown(items, q, j) ==
    IF j > 1 /\ ReverseLess(items, q, j, j - 1)
    THEN InsertDown(Swap(items, j, j - 1), q, j - 1)
    ELSE items

RECURSIVE InsertionSort(_, _, _)
InsertionSort(items, q, i) ==
    IF i > Len(items) THEN items
    ELSE InsertionSort(InsertDown(items, q, i), q, i + 1)

SortReverse(items, q) == InsertionSort(items, q, 2)

\* ScoreItem without the division by the number of terms
ScoreItemSum(c, item, queryParts) ==
    [item EXCEPT !.Score =
        Float(SumScores(c.scorer, item.item.Str, queryParts))]

\* the body of the loop over c.data: the copy of the item with its new Score
ScoreItem(c, item, queryParts) ==
    [item EXCEPT !.Score =
        Quot(SumScores(c.scorer, item.item.Str, queryParts), Len(queryParts))]

\* KeptItems that narrows the rows now live instead of c.data
KeptItemsOfLive(c, queryParts) ==
    SelectSeq([i \in 1..Len(c.live) |-> ScoreItem(c, c.live[i], queryParts)],
              LAMBDA item : ~FLess(item.Score, c.hideLessThan))

\* KeptItems that also drops the items scoring exactly the threshold
KeptItemsAbove(c, queryParts) ==
    SelectSeq([i \in 1..Len(c.data) |-> ScoreItem(c, c.data[i], queryParts)],
              LAMBDA item : ~FLess(item.Score, c.hideLessThan)
                            /\ ~FEq(item.Score, c.hideLessThan))

\* the items appended to live.items, in the order of c.data
KeptItems(c, queryParts) ==
    SelectSeq([i \in 1..Len(c.data) |-> ScoreItem(c, c.data[i], queryParts)],
              LAMBDA item : ~FLess(item.Score, c.hideLessThan))

\* Filter that returns on the empty query without resetting live
FilterKeepsLive(c, q) ==
    IF q = <<>> THEN c
    ELSE LET queryParts == removeEmpty(Split(q, SP))
         IN  [c EXCEPT !.live = SortReverse(KeptItems(c, queryParts), q)]

\* Filter that stores each computed score in c.data as well
FilterScoresData(c, q) ==
    IF q = <<>> THEN [c EXCEPT !.live = c.data]
    ELSE LET queryParts == removeEmpty(Split(q, SP))
         IN  [c EXCEPT !.data = [i \in 1..Len(c.data) |->
                                    ScoreItem(c, c.data[i], queryParts)],
                       !.live = SortReverse(KeptItems(c, queryParts), q)]

\* Content.Filter(query) on the Content c; the result is the Content after it
Filter(c, q) ==
    IF q = <<>> THEN [c EXCEPT !.live = c.data]
    ELSE LET queryParts == removeEmpty(Split(q, SP))
         IN  [c EXCEPT !.live = SortReverse(KeptItems(c, queryParts), q)]

\* Content.GetRowCount
GetRowCount(c) == Len(c.live)

\* the decimal digits of the natural number n
Digits == <<"0", "1", "2", "3", "4", "5", "6", "7", "8", "9">>

RECURSIVE FormatInt(_)
FormatInt(n) ==
    IF n < 10 THEN <<Digits[n + 1]>>
    ELSE FormatInt(n \div 10) \o <<Digits[(n % 10) + 1]>>

\* the last k decimal digits of n, with leading zeros
RECURSIVE FormatFrac(_, _)
FormatFrac(n, k) ==
    IF k = 0 THEN <<>>
    ELSE FormatFrac(n \div 10, k - 1) \o <<Digits[(n % 10) + 1]>>

\* fmt.Sprintf("%f", x): the value rounded to six decimals, "NaN" for NaN
FormatF(x) ==
    IF IsNaN(x) THEN <<"N", "a", "N">>
    ELSE LET m == (2 * Abs(x.num) * 1000000 + x.den) \div (2 * x.den)
         IN  (IF x.num < 0 THEN <<"-">> ELSE <<>>)
             \o FormatInt(m \div 1000000) \o <<".">> \o FormatFrac(m % 1000000, 6)

\* Content.GetCell(row, column): nil when the guard rejects the row; the
\* cell of c.live[row] otherwise; indexing c.live outside its length panics
GetCell(c, r, column) ==
    IF 0 > r \/ r > GetRowCount(c) THEN [kind |-> "nil"]
    ELSE IF r + 1 \notin DOMAIN c.live THEN [kind |-> "panic"]
    ELSE [kind |-> "cell",
          text |-> IF c.verbose
                   THEN c.live[r + 1].item.Str \o <<" ", "[">>
                        \o FormatF(c.live[r + 1].Score) \o <<"]">>
                   ELSE c.live[r + 1].item.Str]

\* the strings of at most MaxQueryLen characters
Strings == UNION {[1..k -> QueryChars] : k \in 0..MaxQueryLen}

\* the queries whose terms the scorers are tabulated for
Queries ==
    {q \in Strings :
        \A i \in 1..Len(removeEmpty(Split(q, SP))) :
            removeEmpty(Split(q, SP))[i] \in Terms}

----------------------------------------------------------------------------
(* Selection session                                                       *)

DefaultHideLessThan == 1

\* the thresholds SetHideLessThan is called with
Thresholds == {Float(1), Float(2)}

\* the Content c that the methods act on
Content ==
    [data |-> data, live |-> live, scorer |-> scorer,
     hideLessThan |-> hideLessThan, verbose |-> verbose]

\* newContent(data), data built by SupplyNewContent or ReadNewContent
Init ==
    /\ stdin = <<>>
    /\ args = <<>>
    /\ caseSensitive = FALSE
    /\ verbose = FALSE
    /\ input \in Sources
    /\ data = SupplyData(input)
    /\ live = data
    /\ scorer = NopScorer
    /\ hideLessThan = Float(DefaultHideLessThan)
    /\ returnOneResult = FALSE
    /\ pc = "setup"
    /\ query = <<>>
    /\ row = 0
    /\ output = <<>>
    /\ stdout = <<>>

SetTextScorer(textScorer) ==
    /\ pc = "setup"
    /\ scorer' = textScorer
    /\ UNCHANGED <<runVars, input, data, live, hideLessThan, returnOneResult,
                   pc, query, row, output, stdout>>

SetReturnOneResult ==
    /\ pc = "setup"
    /\ returnOneResult' = TRUE
    /\ UNCHANGED <<runVars, input, data, live, scorer, hideLessThan,
                   pc, query, row, output, stdout>>

SetHideLessThan(score) ==
    /\ pc = "setup"
    /\ hideLessThan' = score
    /\ UNCHANGED <<runVars, input, data, live, scorer, returnOneResult,
                   pc, query, row, output, stdout>>

\* Find that returns a single result whether or not returnOneResult is set
FindAlwaysReturnsOne(q) ==
    /\ pc = "setup"
    /\ LET c1 == Filter(Content, q)
           c2 == Filter(c1, q)
       IN  IF GetRowCount(c1) = 1
           THEN /\ pc' = "AutoResolved"
                /\ output' = c1.live[1].item.Val
                /\ live' = c1.live
                /\ data' = c1.data
                /\ UNCHANGED <<query, row>>
           ELSE /\ pc' = "Editing"
                /\ live' = c2.live
                /\ data' = c2.data
                /\ query' = q
                /\ row' = 0
                /\ UNCHANGED output
    /\ UNCHANGED <<runVars, input, scorer, hideLessThan, returnOneResult, stdout>>

\* FindWithScreen up to app.Run: Filter(query); the single-result return;
\* otherwise inputField.SetText(query), whose changed callback runs
\* Filter(query) again and selects row 0, and table.Select(0, 0)
Find(q) ==
    /\ pc = "setup"
    /\ LET c1 == Filter(Content, q)
           c2 == Filter(c1, q)
       IN  IF GetRowCount(c1) = 1 /\ returnOneResult
           THEN /\ pc' = "AutoResolved"
                /\ output' = c1.live[1].item.Val
                /\ live' = c1.live
                /\ data' = c1.data
                /\ UNCHANGED <<query, row>>
           ELSE /\ pc' = "Editing"
                /\ live' = c2.live
                /\ data' = c2.data
                /\ query' = q
                /\ row' = 0
                /\ UNCHANGED output
    /\ UNCHANGED <<runVars, input, scorer, hideLessThan, returnOneResult, stdout>>

\* the texts one edit of the input field turns s into: a character typed at
\* any cursor position, a character deleted, or the whole field cleared
InsertAt(s, i, ch) == SubSeq(s, 1, i) \o <<ch>> \o SubSeq(s, i + 1, Len(s))
DeleteAt(s, i) == SubSeq(s, 1, i - 1) \o SubSeq(s, i + 1, Len(s))
Edits(s) ==
    ( {InsertAt(s, i, ch) : i \in 0..Len(s), ch \in QueryChars}
      \cup {DeleteAt(s, i) : i \in 1..Len(s)}
      \cup {<<>>} ) \ {s}

\* the changed callback without table.Select(0, 0): the selected row stays
TextChangedKeepsRow(text) ==
    /\ pc = "Editing"
    /\ LET c1 == Filter(Content, text)
       IN  /\ live' = c1.live
           /\ data' = c1.data
    /\ query' = text
    /\ UNCHANGED <<runVars, input, scorer, hideLessThan, returnOneResult, pc, row,
                   output, stdout>>

\* the changed callback that filters with the text the field held before
TextChangedStale(text) ==
    /\ pc = "Editing"
    /\ LET c1 == Filter(Content, query)
       IN  /\ live' = c1.live
           /\ data' = c1.data
    /\ query' = text
    /\ row' = 0
    /\ UNCHANGED <<runVars, input, scorer, hideLessThan, returnOneResult, pc, output, stdout>>

\* the changed callback that builds the scorer anew from the text typed
TextChangedRecase(text) ==
    /\ pc = "Editing"
    /\ caseSensitive' = HasUpper(text)
    /\ scorer' = NewSmithWaterman(HasUpper(text))
    /\ LET c1 == Filter([Content EXCEPT !.scorer = scorer'], text)
       IN  /\ live' = c1.live
           /\ data' = c1.data
    /\ query' = text
    /\ row' = 0
    /\ UNCHANGED <<stdin, args, verbose, input, hideLessThan, returnOneResult,
                   pc, output, stdout>>

\* the changed callback of the input field
TextChanged(text) ==
    /\ pc = "Editing"
    /\ LET c1 == Filter(Content, text)
       IN  /\ live' = c1.live
           /\ data' = c1.data
    /\ query' = text
    /\ row' = 0
    /\ UNCHANGED <<runVars, input, scorer, hideLessThan, returnOneResult, pc, output, stdout>>

\* the row the table selects after an Up (delta = -1) or Down (delta = 1) key
\* on a table of n rows: one row further, never before the first row nor
\* after the last; an empty table does not move
MoveRow(r, delta, n) ==
    IF n = 0 THEN r
    ELSE IF r + delta < 0 THEN 0
    ELSE IF r + delta > n - 1 THEN n - 1
    ELSE r + delta

\* input capture, tcell.KeyUp: the event goes to the table
KeyUp ==
    /\ pc = "Editing"
    /\ row' = MoveRow(row, -1, GetRowCount(Content))
    /\ UNCHANGED <<runVars, input, data, live, scorer, hideLessThan, returnOneResult,
                   pc, query, output, stdout>>

\* input capture, tcell.KeyDown: the event goes to the table
KeyDown ==
    /\ pc = "Editing"
    /\ row' = MoveRow(row, 1, GetRowCount(Content))
    /\ UNCHANGED <<runVars, input, data, live, scorer, hideLessThan, returnOneResult,
                   pc, query, output, stdout>>

\* SelectedFunc that returns the displayed String() of the row
SelectedFuncString(r) ==
    /\ output' = live[r + 1].item.Str
    /\ pc' = "Selected"
    /\ UNCHANGED <<runVars, input, data, live, scorer, hideLessThan, returnOneResult,
                   query, row, stdout>>

\* the function given to SetSelectedFunc, called with the selected row:
\* output = content.live[row].item.Value(); app.Stop()
SelectedFunc(r) ==
    /\ output' = live[r + 1].item.Val
    /\ pc' = "Selected"
    /\ UNCHANGED <<runVars, input, data, live, scorer, hideLessThan, returnOneResult,
                   query, row, stdout>>

\* input capture, tcell.KeyEnter: the event goes to the table, which calls
\* the selected function with its selected row.  On a table without rows the
\* table either drops the key or still calls the function with row 0,
\* depending on the release of the table widget; content.live[0] then
\* indexes an empty slice and the program panics.
KeyEnter ==
    /\ pc = "Editing"
    /\ IF GetRowCount(Content) > 0
       THEN SelectedFunc(row)
       ELSE \/ UNCHANGED vars
            \/ /\ pc' = "Panicked"
               /\ UNCHANGED <<runVars, input, data, live, scorer, hideLessThan, returnOneResult,
                              query, row, output, stdout>>

\* KeyEscape whose done function does not stop the application
KeyEscapeIgnored ==
    /\ pc = "Editing"
    /\ UNCHANGED vars

\* KeyEscape whose event reaches the input field and clears its text
KeyEscapeClears ==
    /\ pc = "Editing"
    /\ query' = <<>>
    /\ live' = Filter(Content, <<>>).live
    /\ row' = 0
    /\ UNCHANGED <<runVars, input, data, scorer, hideLessThan, returnOneResult,
                   pc, output, stdout>>

\* input capture, tcell.KeyEscape: the event goes to the table, which calls
\* the function given to SetDoneFunc: app.Stop()
KeyEscape ==
    /\ pc = "Editing"
    /\ pc' = "Cancelled"
    /\ UNCHANGED <<runVars, input, data, live, scorer, hideLessThan, returnOneResult,
                   query, row, output, stdout>>

\* Find has returned: (output, nil), or ("", err) when app.Run failed
Returned == pc \in {"Selected", "Cancelled", "AutoResolved", "Failed"}

\* Run after Find: fmt.Fprintln(stdout, out) writes out and a newline
Fprintln ==
    /\ Returned
    /\ stdout = <<>>
    /\ stdout' = stdout \o output \o <<"\n">>
    /\ UNCHANGED <<runVars, input, data, live, scorer, hideLessThan, returnOneResult,
                   pc, query, row, output>>

Next ==
    \/ \E textScorer \in Scorers : SetTextScorer(textScorer)
    \/ SetReturnOneResult
    \/ \E score \in Thresholds : SetHideLessThan(score)
    \/ \E q \in Queries : Find(q)
    \/ \E text \in Edits(query) \cap Queries : TextChanged(text)
    \/ KeyUp
    \/ KeyDown
    \/ KeyEnter
    \/ KeyEscape
    \/ Fprintln

Spec == Init /\ [][Next]_vars

----------------------------------------------------------------------------
(* The command-line program: Run reads the candidates from standard input, *)
(* builds the scorer from the query on the command line and calls Find     *)

MaxStreamLen == 5

LF == "\n"
CR == "\r"

\* bufio.MaxScanTokenSize, the size the buffer of a bufio.Scanner stops
\* growing at.  It is 64 * 1024 bytes; the model scales it down to 4
\* characters, so that a line of up to 3 characters is scanned and a line of
\* 4 or more is too long.
MaxScanTokenSize == 4

\* characters the input stream is made of
StreamChars == {"a", LF, CR}

\* the streams of at most MaxStreamLen characters
Streams == UNION {[1..k -> StreamChars] : k \in 0..MaxStreamLen}

\* the streams the command-line sessions read: no line, two lines with the
\* final newline, three lines without it
RunStreams ==
    { <<>>,
      TextA \o <<LF>> \o TextABB \o <<LF>>,
      TextABB \o <<LF>> \o TextA \o <<LF>> \o TextABB }

\* dropCR of bufio.ScanLines: a line loses one trailing carriage return
dropCR(line) ==
    IF line # <<>> /\ line[Len(line)] = CR
    THEN SubSeq(line, 1, Len(line) - 1)
    ELSE line

\* the tokens scanner.Scan() yields from the stream s with the split function
\* bufio.ScanLines.  A line ends at the first LF; the rest of the stream
\* after the last LF is a line if it is not empty.  Scan returns false, with
\* the error ErrTooLong, when the buffer holds MaxScanTokenSize characters
\* and no line ends within them.
RECURSIVE Scan(_)
Scan(s) ==
    LET i == IndexFrom(s, LF, 1)
    IN  IF s = <<>> THEN <<>>
        ELSE IF i = 0
        THEN (IF Len(s) >= MaxScanTokenSize THEN <<>> ELSE <<dropCR(s)>>)
        ELSE IF i > MaxScanTokenSize THEN <<>>
        ELSE <<dropCR(SubSeq(s, 1, i - 1))>> \o Scan(SubSeq(s, i + 1, Len(s)))

\* the loop of ReadNewContent: NewStr(scanner.Text()) for every token; the
\* error of the scanner is not looked at
ScannedLines(s) == StrListEach(Scan(s))

RunQueries ==
    {q \in UNION {[1..k -> RunChars] : k \in 0..MaxQueryLen} :
        \A i \in 1..Len(removeEmpty(Split(q, SP))) :
            removeEmpty(Split(q, SP))[i] \in RunTerms}

RunEdits(s) ==
    ( {InsertAt(s, i, ch) : i \in 0..Len(s), ch \in RunChars}
      \cup {DeleteAt(s, i) : i \in 1..Len(s)}
      \cup {<<>>} ) \ {s}

\* the process before Run has read anything
InitOver(streams) ==
    /\ stdin \in streams
    /\ caseSensitive = FALSE
    /\ verbose = FALSE
    /\ input = <<>>
    /\ data = <<>>
    /\ live = <<>>
    /\ scorer = NopScorer
    /\ hideLessThan = Float(DefaultHideLessThan)
    /\ returnOneResult = FALSE
    /\ pc = "start"
    /\ query = <<>>
    /\ row = 0
    /\ output = <<>>
    /\ stdout = <<>>

InitRun == args \in RunQueries /\ InitOver(RunStreams)

InitRead == args = <<>> /\ InitOver(Streams)

\* content := fuzzy.ReadNewContent(input)
ReadNewContent ==
    /\ pc = "start"
    /\ input' = ScannedLines(stdin)
    /\ data' = SupplyData(ScannedLines(stdin))
    /\ live' = data'
    /\ scorer' = NopScorer
    /\ hideLessThan' = Float(DefaultHideLessThan)
    /\ returnOneResult' = FALSE
    /\ pc' = "read"
    /\ UNCHANGED <<runVars, query, row, output, stdout>>

\* caseSensitive := HasUpper(query);
\* content.SetTextScorer(NewSmithWaterman(caseSensitive));
\* if *verbose { content.SetVerbose() }, v being the -v flag
RunSetup(v) ==
    /\ pc = "read"
    /\ caseSensitive' = HasUpper(args)
    /\ scorer' = NewSmithWaterman(HasUpper(args))
    /\ verbose' = v
    /\ pc' = "setup"
    /\ UNCHANGED <<stdin, args, input, data, live, hideLessThan,
                   returnOneResult, query, row, output, stdout>>

\* out, err := fuzzy.Find(query, content)
RunFind == Find(args)

\* app.Run() returns an error: FindWithScreen returns ("", err)
AppRunFails ==
    /\ pc = "Editing"
    /\ pc' = "Failed"
    /\ output' = <<>>
    /\ UNCHANGED <<runVars, input, data, live, scorer, hideLessThan,
                   returnOneResult, query, row, stdout>>

NextRun ==
    \/ ReadNewContent
    \/ \E v \in BOOLEAN : RunSetup(v)
    \/ RunFind
    \/ \E text \in RunEdits(query) \cap RunQueries : TextChanged(text)
    \/ KeyUp
    \/ KeyDown
    \/ KeyEnter
    \/ KeyEscape
    \/ AppRunFails
    \/ Fprintln

\* the command-line program
SpecRun == InitRun /\ [][NextRun]_vars

\* ReadNewContent alone, on every stream
SpecRead == InitRead /\ [][ReadNewContent]_vars

----------------------------------------------------------------------------

(* Properties of the match/rank engine                                     *)

\* live is the result of Filter(query): the session has run Filter with the
\* text of the input field
Filtered == pc \in {"Editing", "Selected", "Cancelled", "Panicked"}

\* the Content as newContent built it, with the scorer and threshold now set
FreshContent ==
    [data |-> SupplyData(input), live |-> SupplyData(input),
     scorer |-> scorer, hideLessThan |-> hideLessThan, verbose |-> verbose]

\* the maximal runs of characters of s that are not in seps, in order
RECURSIVE Runs(_, _, _)
Runs(s, seps, run) ==
    IF s = <<>> THEN (IF run = <<>> THEN <<>> ELSE <<run>>)
    ELSE IF Head(s) \in seps
         THEN (IF run = <<>> THEN <<>> ELSE <<run>>) \o Runs(Tail(s), seps, <<>>)
         ELSE Runs(Tail(s), seps, Append(run, Head(s)))

TermsOf(q, seps) == Runs(q, seps, <<>>)

RECURSIVE TotalOver(_, _, _, _)
TotalOver(sc, text, terms, i) ==
    IF i > Len(terms) THEN 0
    ELSE sc[<<text, terms[i]>>] + TotalOver(sc, text, terms, i + 1)

\* x is the arithmetic mean of the scores of text against the terms
IsMeanOf(x, sc, text, terms) ==
    /\ ~IsNaN(x)
    /\ x.num * Len(terms) = TotalOver(sc, text, terms, 1) * x.den

\* the candidate at position i of the full set has a row in live
InLive(i) == \E j \in 1..Len(live) : live[j].item = data[i].item

\* C1: after Filter(q) with q non-empty, every adjacent pair (x, y) of live
\* has score(x) > score(y), or score(x) = score(y) and x at least as close
\* in length to q as y.  Stated for the queries that hold a term.
C1_SortedByScore ==
    (Filtered /\ TermsOf(query, {SP}) # <<>>) =>
        \A i \in 1..(Len(live) - 1) :
            \/ FGreater(live[i].Score, live[i + 1].Score)
            \/ /\ FEq(live[i].Score, live[i + 1].Score)
               /\ LenDiff(query, live[i]) <= LenDiff(query, live[i + 1])

\* the aggregate score Filter(query) computes for the candidate at position i
\* of the full set
Aggregate(i) ==
    ScoreItem(Content, data[i], removeEmpty(Split(query, SP))).Score

C3_EmptyQueryIdentity ==
    (Filtered /\ query = <<>>) =>
        /\ live = data
        /\ live = SupplyData(input)
        /\ \A j \in 1..Len(live) : live[j].Score = Float(DefaultScore)

\* C3 witness: the empty query shows all three candidates under a scorer
\* that would hide some of them
C3_Witness ==
    /\ pc = "Editing"
    /\ query = <<>>
    /\ Len(live) = 3
    /\ \E p \in DOMAIN scorer : scorer[p] = 0

\* C4 (as stated): the aggregate score of every live candidate is the mean of
\* its scores against the terms that whitespace (space or tab) separates.
C4_MeanOverWhitespaceTerms ==
    (Filtered /\ TermsOf(query, {SP, TAB}) # <<>>) =>
        \A j \in 1..Len(live) :
            IsMeanOf(live[j].Score, scorer, live[j].item.Str,
                     TermsOf(query, {SP, TAB}))

\* C4 (amended): the terms are what the space character separates, a tab
\* stays part of its term; the aggregate score of every live candidate is the
\* mean of its scores against these terms, however many spaces lead, trail or
\* separate them, and NaN when the query holds no term.
C4_MeanOverSpaceTerms ==
    (Filtered /\ query # <<>>) =>
        \A j \in 1..Len(live) :
            IF TermsOf(query, {SP}) = <<>>
            THEN IsNaN(live[j].Score)
            ELSE IsMeanOf(live[j].Score, scorer, live[j].item.Str,
                          TermsOf(query, {SP}))

\* C4 witness: the query " a b" (a leading space, two terms) leaves a
\* candidate whose score 1 is the mean of 2 and 0
C4_Witness ==
    /\ pc = "Editing"
    /\ query = <<SP, "a", "b">> \/ query = <<"a", SP, "b">>
    /\ \E j \in 1..Len(live) :
           /\ live[j].Score = Float(1)
           /\ scorer[<<live[j].item.Str, <<"a">>>>] = 2
           /\ scorer[<<live[j].item.Str, <<"b">>>>] = 0

\* C5: the live sequence after Filter(q) is the one a fresh Content with the
\* same candidates, scorer and threshold produces for q: same candidates,
\* same order, same scores, whatever was filtered before.
C5_HistoryIndependent ==
    Filtered => live = Filter(FreshContent, query).live

\* C5 witness: a three-character query reached by edits, two rows live with
\* different scores
C5_Witness ==
    /\ pc = "Editing"
    /\ Len(query) = 3
    /\ Len(live) >= 2
    /\ live[1].Score # live[2].Score

----------------------------------------------------------------------------
(* Properties of the selection session                                     *)

\* C6: a confirm while Editing with rows live ends the session as Selected,
\* and Find returns the Value() of the candidate at the selected row of the
\* live set of the latest text edit.
C6_ConfirmReturnsValue ==
    [][(KeyEnter /\ GetRowCount(Content) > 0) =>
          /\ pc' = "Selected"
          /\ row + 1 \in 1..Len(live)
          /\ output' = live[row + 1].item.Val
          /\ output' = Filter(FreshContent, query).live[row + 1].item.Val]_vars

\* C6 witness: the second row of a filtered map input was confirmed; the
\* value returned is the map key, not the text displayed
C6_Witness ==
    /\ pc = "Selected"
    /\ query # <<>>
    /\ row = 1
    /\ output = KeyK
    /\ live[row + 1].item.Str # output

\* C8: Find returns at once, with the Value() of the only live candidate, if
\* and only if returnOneResult is set and the first Filter leaves one row;
\* otherwise the session is Editing, and no text edit that narrows live to
\* one row ends it.
C8_AutoResolve ==
    [][/\ (pc = "setup" /\ pc' # "setup") =>
              /\ pc' \in {"AutoResolved", "Editing"}
              /\ pc' = "AutoResolved" <=> (returnOneResult /\ Len(live') = 1)
              /\ pc' = "AutoResolved" => output' = live'[1].item.Val
       /\ (pc = "Editing" /\ query' # query) => pc' = "Editing"
       /\ pc = "Editing" => pc' # "AutoResolved"
       /\ pc = "AutoResolved" => pc' = "AutoResolved"]_vars

\* C8 witness: Find returned the key of the only matching map entry
C8_Witness ==
    /\ pc = "AutoResolved"
    /\ Len(data) = 2
    /\ Len(live) = 1
    /\ output = KeyK

\* C9: a cancel while Editing ends the session as Cancelled with the empty
\* output, and a Cancelled session stays Cancelled.
C9_CancelIsFinal ==
    /\ [](pc = "Editing" =>
             ENABLED (KeyEscape /\ pc' = "Cancelled" /\ output' = <<>>))
    /\ [][/\ KeyEscape => (pc' = "Cancelled" /\ output' = <<>>)
          /\ pc = "Cancelled" => (pc' = "Cancelled" /\ output' = <<>>)]_vars

\* C9 witness: cancelled after a text edit and a move to the second row
C9_Witness ==
    /\ pc = "Cancelled"
    /\ query # <<>>
    /\ row = 1
    /\ output = <<>>

\* C10: Run writes the selected value and a line terminator to standard
\* output when the session ends Selected, and nothing when it ends Cancelled.
C10_StdoutOnlyOnSelect ==
    /\ (pc = "Selected" /\ stdout # <<>>) => stdout = output \o <<"\n">>
    /\ pc = "Cancelled" => stdout = <<>>

----------------------------------------------------------------------------
(* Properties of the selection session: rows, edits and keys               *)

\* C11: while Editing the selected row is never negative and, when live is
\* not empty, is an index of live (0 .. len(live) - 1), whatever text edits
\* and Up/Down keys came before; Up on row 0 stays on row 0 and Down on the
\* last row stays on the last row.
C11_RowInBounds ==
    /\ [](pc = "Editing" =>
             /\ row >= 0
             /\ live # <<>> => row \in 0..(Len(live) - 1))
    /\ [][/\ (KeyUp /\ row = 0) => row' = 0
          /\ (KeyDown /\ live # <<>> /\ row = Len(live) - 1) => row' = row]_vars

\* C11 witness: on the last of three rows after an edit of the query
C11_Witness ==
    /\ pc = "Editing"
    /\ query # <<>>
    /\ Len(live) = 3
    /\ row = 2

\* C12: every step that changes the text of the input field while Editing
\* leaves live equal to the result of Filter(new text) on the full set,
\* whatever live held before, selects row 0 and stays Editing.
C12_EditRefilters ==
    [][(pc = "Editing" /\ query' # query) =>
           /\ live' = Filter(FreshContent, query').live
           /\ row' = 0
           /\ pc' = "Editing"]_vars

\* C12 witness: the second of two rows is selected and an edit of the text
\* is about to leave a single row, selected as row 0
C12_Witness ==
    /\ pc = "Editing"
    /\ Len(live) = 2
    /\ row = 1
    /\ \E text \in Edits(query) \cap Queries :
           Len(Filter(Content, text).live) = 1

\* C13: once Run has built the scorer, the scorer is case sensitive exactly
\* when the query given on the command line holds an uppercase letter, and
\* no later step changes the scorer or its case sensitivity, whatever text
\* is typed into the input field.
C13_CaseFixedAtStart ==
    /\ [](pc \notin {"start", "read"} =>
             /\ caseSensitive = HasUpper(args)
             /\ scorer = NewSmithWaterman(HasUpper(args)))
    /\ [][pc \notin {"start", "read"} =>
             /\ caseSensitive' = caseSensitive
             /\ scorer' = scorer]_vars

\* C13 witness: started with a query without an uppercase letter, the field
\* now holds an uppercase letter; the scorer is still case insensitive and
\* the rows matched by the lower-case letter are live
C13_Witness ==
    /\ pc = "Editing"
    /\ ~HasUpper(args)
    /\ HasUpper(query)
    /\ ~caseSensitive
    /\ live # <<>>

\* C14: when app.Run returns an error the session ends Failed with the empty
\* output, and Run writes nothing to standard output.
C14_NoOutputOnFailure ==
    pc = "Failed" => (output = <<>> /\ stdout = <<>>)

----------------------------------------------------------------------------
(* Properties of the candidate set                                         *)

\* the lines of the stream s: the pieces between the line feeds, without the
\* empty piece after a final line feed, each without the carriage return
\* that may precede its line feed
LinesOf(s) ==
    LET pieces == Split(s, LF)
        kept == IF pieces[Len(pieces)] = <<>>
                THEN SubSeq(pieces, 1, Len(pieces) - 1)
                ELSE pieces
    IN  [i \in 1..Len(kept) |-> dropCR(kept[i])]

\* C15: after ReadNewContent the full set holds one candidate per line of
\* the input, in input order, with searchText = returnValue = the line
\* without its terminator and score 1; a final newline adds no empty
\* candidate; and live equals the full set.
C15_OneCandidatePerLine ==
    pc = "read" =>
        /\ Len(data) = Len(LinesOf(stdin))
        /\ \A i \in 1..Len(data) :
               /\ data[i].item.Str = LinesOf(stdin)[i]
               /\ data[i].item.Val = LinesOf(stdin)[i]
               /\ data[i].Score = Float(1)
        /\ live = data

\* C16: the full set never changes after construction: in every state data
\* holds the candidates the Content was built from, in their order, each
\* with the default score 1, and no step changes data.
C16_DataImmutable ==
    /\ [](/\ data = SupplyData(input)
          /\ \A i \in 1..Len(data) : data[i].Score = Float(1))
    /\ [][data' = data]_vars

\* C16 witness: a Filter with a term has left fewer rows than candidates and
\* a score other than 1 in live
C16_Witness ==
    /\ pc = "Editing"
    /\ query # <<>>
    /\ Len(data) = 3
    /\ Len(live) < Len(data)
    /\ \E j \in 1..Len(live) : live[j].Score # Float(1)

\* how many rows of the sequence s hold the candidate it
Count(s, it) == Cardinality({j \in 1..Len(s) : s[j].item = it})

\* C17: in every state live is a filtered reordering of the full set: every
\* row of live holds a candidate of data, and no candidate is in live more
\* often than it is in data.
C17_LiveWithinData ==
    \A j \in 1..Len(live) :
        /\ \E i \in 1..Len(data) : data[i].item = live[j].item
        /\ Count(live, live[j].item) <= Count(data, live[j].item)

\* C17 witness: Filter has kept three candidates, two of them equal, and
\* moved the second of the full set in front of the first
C17_Witness ==
    /\ Filtered
    /\ query # <<>>
    /\ Len(data) = 3
    /\ Len(live) = 3
    /\ data[1].item = data[3].item
    /\ live[1].item = data[2].item
    /\ live[1].item # data[1].item

\* the candidates of the rows of s, in row order
ItemsOf(s) == [j \in 1..Len(s) |-> s[j].item]

\* C18: after Filter(q) with q not empty and made of spaces only, live holds
\* every candidate of the full set, in the order of the full set, as after
\* the empty query.
C18_BlankQueryKeepsOrder ==
    (Filtered /\ query # <<>> /\ \A i \in 1..Len(query) : query[i] = SP) =>
        ItemsOf(live) = ItemsOf(data)

\* C19: an Up, Down, Enter or Escape key leaves the text of the input field,
\* live and every score in live as they are; while Editing a step changes
\* live only if it changes the text of the input field.
C19_KeysLeaveQuery ==
    [][/\ (KeyUp \/ KeyDown \/ KeyEnter \/ KeyEscape) =>
              (query' = query /\ live' = live /\ data' = data)
       /\ (pc = "Editing" /\ live' # live) => query' # query]_vars

\* C19 witness: Selected on the second row after Down and Enter, the input
\* field still holding its text and live still the result of Filter on it
C19_Witness ==
    /\ pc = "Selected"
    /\ row = 1
    /\ query # <<>>
    /\ Len(live) = 2
    /\ live = Filter(FreshContent, query).live
    /\ output = live[2].item.Val

\* C20: GetCell(row, column) never indexes outside live: for every row
\* outside 0 .. GetRowCount() - 1, so also for row = GetRowCount() and for
\* any row when live is empty, it returns nil; for a row inside it returns
\* the cell of live[row], whose text is the searchText, followed by the
\* score only when verbose.
C20_GetCellInRange ==
    pc # "start" =>
        \A r \in (-1)..(GetRowCount(Content) + 1) :
            IF r \in 0..(GetRowCount(Content) - 1)
            THEN LET cell == GetCell(Content, r, 0)
                     str == live[r + 1].item.Str
                 IN  /\ cell.kind = "cell"
                     /\ SubSeq(cell.text, 1, Len(str)) = str
                     /\ verbose <=> Len(cell.text) > Len(str)
            ELSE GetCell(Content, r, 0).kind = "nil"

====
